---- MODULE Spec2Model ----
(***************************************************************************)
(* State-machine model of t265_precland_apriltags.py: the main thread      *)
(* (startup, Acquisition Loop, cleanup), the autopilot event callbacks,    *)
(* the calibration thread and the three scheduled telemetry tasks.         *)
(*                                                                         *)
(* Conventions.  A Python name that may hold None is an "option": <<>> is  *)
(* None and <<v>> is the value v.  Lengths are integers; yaw is counted in *)
(* quarter turns so that every rotation matrix has integer entries.  The   *)
(* floating point percentage level*100/3 is the exact fraction num/den.    *)
(***************************************************************************)
EXTENDS Integers, Sequences, FiniteSets, TLC

(* ------------------------------ bounds -------------------------------- *)
MaxFrames == 3
MaxYaw == 2
MaxScale == 2
MaxCoord == 2
MaxTagPose == 1
MaxTags == 2
MaxTicks == 3
MaxConnect == 2
MaxStatus == 2

(* ------------------------- program constants --------------------------- *)
tag_landing_id == 0
body_offset_x == 1
body_offset_y == 0
body_offset_z == 0
pose_data_confidence_level == <<"Failed", "Low", "Medium", "High">>

None == <<>>
Some(v) == <<v>>
Val(o) == o[1]

(* ------------------------- 4x4 matrix algebra -------------------------- *)
Identity4 == << <<1, 0, 0, 0>>, <<0, 1, 0, 0>>, <<0, 0, 1, 0>>, <<0, 0, 0, 1>> >>

Dot4(A, B, i, j) == A[i][1] * B[1][j] + A[i][2] * B[2][j]
                    + A[i][3] * B[3][j] + A[i][4] * B[4][j]

MatRow(A, B, i) == << Dot4(A, B, i, 1), Dot4(A, B, i, 2), Dot4(A, B, i, 3), Dot4(A, B, i, 4) >>

MatDot(A, B) == << MatRow(A, B, 1), MatRow(A, B, 2), MatRow(A, B, 3), MatRow(A, B, 4) >>

translation_from_matrix(H) == << H[1][4], H[2][4], H[3][4] >>

TranslationMatrix(t) ==
    << <<1, 0, 0, t[1]>>, <<0, 1, 0, t[2]>>, <<0, 0, 1, t[3]>>, <<0, 0, 0, 1>> >>

(* tf.quaternion_matrix([w, x, y, z]): the quaternion is normalised by     *)
(* 2/|q|^2 and the outer product gives the rotation block.                 *)
QOuter(q, i, j) == (2 * q[i] * q[j]) \div (q[1] * q[1] + q[2] * q[2] + q[3] * q[3] + q[4] * q[4])

quaternion_matrix(q) ==
    IF q[1] * q[1] + q[2] * q[2] + q[3] * q[3] + q[4] * q[4] = 0
    THEN Identity4
    ELSE << << 1 - QOuter(q, 3, 3) - QOuter(q, 4, 4),
               QOuter(q, 2, 3) - QOuter(q, 4, 1),
               QOuter(q, 2, 4) + QOuter(q, 3, 1), 0 >>,
            << QOuter(q, 2, 3) + QOuter(q, 4, 1),
               1 - QOuter(q, 2, 2) - QOuter(q, 4, 4),
               QOuter(q, 3, 4) - QOuter(q, 2, 1), 0 >>,
            << QOuter(q, 2, 4) - QOuter(q, 3, 1),
               QOuter(q, 3, 4) + QOuter(q, 2, 1),
               1 - QOuter(q, 2, 2) - QOuter(q, 3, 3), 0 >>,
            << 0, 0, 0, 1 >> >>

(* cosine and sine of a yaw given in quarter turns *)
CosQ(k) == CASE k % 4 = 0 -> 1 [] k % 4 = 2 -> -1 [] OTHER -> 0
SinQ(k) == CASE k % 4 = 1 -> 1 [] k % 4 = 3 -> -1 [] OTHER -> 0

(* tf.euler_matrix(0, 0, yaw, 'sxyz') *)
euler_matrix_yaw(k) ==
    << << CosQ(k), -SinQ(k), 0, 0 >>,
       << SinQ(k), CosQ(k), 0, 0 >>,
       << 0, 0, 1, 0 >>,
       << 0, 0, 0, 1 >> >>

H_aeroRef_T265Ref ==
    << <<0, 0, -1, 0>>, <<1, 0, 0, 0>>, <<0, -1, 0, 0>>, <<0, 0, 0, 1>> >>

(* orientation 0: np.linalg.inv(H_aeroRef_T265Ref); orientation 1: literal *)
H_T265body_aeroBody(orientation) ==
    IF orientation = 0
    THEN << <<0, 1, 0, 0>>, <<0, 0, -1, 0>>, <<-1, 0, 0, 0>>, <<0, 0, 0, 1>> >>
    ELSE << <<0, 1, 0, 0>>, <<1, 0, 0, 0>>, <<0, 0, -1, 0>>, <<0, 0, 0, 1>> >>

H_body_camera == TranslationMatrix(<<body_offset_x, body_offset_y, body_offset_z>>)
H_camera_body == TranslationMatrix(<<-body_offset_x, -body_offset_y, -body_offset_z>>)

(* variant: integer division, level * 100 // 3 *)
confidence_percent_floor(level) == [num |-> (level * 100) \div 3, den |-> 1]

(* confidence_percent = float(level * 100 / 3), kept as an exact fraction *)
confidence_percent(level) == [num |-> level * 100, den |-> 3]

(* lines 58-60 *)
HomeRef == [lat |-> 151269321, lon |-> 16624301, alt |-> 163000]

(* the message of lines 313-318 *)
set_gps_global_origin ==
    [type |-> "SET_GPS_GLOBAL_ORIGIN", lat |-> HomeRef.lat, lon |-> HomeRef.lon,
     alt |-> HomeRef.alt]

(* the message of lines 326-347 *)
set_home_position ==
    [type |-> "SET_HOME_POSITION", lat |-> HomeRef.lat, lon |-> HomeRef.lon,
     alt |-> HomeRef.alt, pos |-> <<0, 0, 0>>, q |-> <<1, 0, 0, 0>>,
     approach |-> <<0, 0, 1>>]

(* line 354 *)
TriggerTexts == {"GPS Glitch", "GPS Glitch cleared",
                 "EKF2 IMU1 ext nav yaw alignment complete"}

(* ------------------------------ inputs -------------------------------- *)
StatusTexts == TriggerTexts \cup {"EKF2 IMU0 ext nav yaw alignment complete",
                                  "PreArm: Need 3D Fix"}
Quats == { <<1, 0, 0, 0>>, <<1, 0, 0, 1>> }
Levels == 0..3
Coords == 1..MaxCoord
Yaws == 0..MaxYaw
Scales == 1..MaxScale
TagIds == {tag_landing_id, tag_landing_id + 1}
TagPoses == { <<k + 1, k + 2, k>> : k \in 0..MaxTagPose }
Tag(id, t) == [tag_id |-> id, pose_t |-> t]
AllTags == { Tag(id, t) : id \in TagIds, t \in TagPoses }
TagLists == UNION { [1..n -> AllTags] : n \in 0..MaxTags }

Sample(level, q, t) == [tracker_confidence |-> level, rotation |-> q, translation |-> t]
BaseSample == Sample(3, <<1, 0, 0, 0>>, <<1, 2, 3>>)
BaseTags == << Tag(tag_landing_id, <<2, 3, 1>>) >>

(* ------------------------------- state -------------------------------- *)
VARIABLES
    cfg,                      \* parsed options and the module-level switches
    pc,                       \* position of the main thread
    pipe,                     \* "none" | "started" | "stopped"
    vehicle,                  \* "none" | "open" | "closed"
    listeners,                \* message names with a registered callback
    sched,                    \* [jobs, running] of the BackgroundScheduler
    bound,                    \* globals of lines 425-430 are bound
    frame_mutex,              \* "free" or the thread holding the lock
    scale_factor,
    frameNo,                  \* number of framesets delivered so far
    frames,                   \* option: pose sample of the current frameset
    data,                     \* option: latest pose sample
    H_T265Ref_T265body,
    H_aeroRef_aeroBody,       \* None or a 4x4 matrix
    heading_north_yaw,        \* option
    tags,                     \* detector output of this iteration
    tagIdx,                   \* position of the for loop over tags
    H_camera_tag,             \* option: translation column of the matrix
    is_landing_tag_detected,
    current_confidence,       \* option
    su,                       \* calibration thread
    lt,                       \* landing-target task
    vp,                       \* navigation-pose task
    cf,                       \* confidence task
    st,                       \* statustext_callback on the link's listener thread
    obs                       \* history kept for stating the properties

vars == << cfg, pc, pipe, vehicle, listeners, sched, bound, frame_mutex,
           scale_factor, frameNo, frames, data, H_T265Ref_T265body,
           H_aeroRef_aeroBody, heading_north_yaw, tags, tagIdx, H_camera_tag,
           is_landing_tag_detected, current_confidence, su, lt, vp, cf, st, obs >>

procVars == << pipe, vehicle, listeners, sched, bound >>
lockVars == << frame_mutex, scale_factor >>
poseVars == << frameNo, frames, data, H_T265Ref_T265body, H_aeroRef_aeroBody >>
tagVars == << tags, tagIdx, H_camera_tag, is_landing_tag_detected >>
taskVars == << current_confidence, su, lt, vp, cf >>

Jobs == {"vision", "confidence", "landing"}

(* the order of the add_job calls of lines 434-436 *)
AddOrder == <<"vision", "confidence", "landing">>

(* the three frequency options, lines 82-90 and 105-107: any float parses;  *)
(* the values stand for a positive, a zero and a negative frequency         *)
HzValues == {-1, 0, 1}
HzDefault == [vision |-> 1, confidence |-> 1, landing |-> 1]
HzTriples == {HzDefault} \cup { [HzDefault EXCEPT ![j] = h] : j \in Jobs, h \in HzValues }

Config(orientation, compass, offset, calib, viz, hz) ==
    [camera_orientation |-> orientation, compass_enabled |-> compass,
     body_offset_enabled |-> offset, scale_calib_enable |-> calib,
     visualization |-> viz, hz |-> hz]

SuOff == [pc |-> "off", user_input |-> "none"]
SuIdle == [pc |-> "input", user_input |-> "none"]
LtIdle == [pc |-> "idle", flag |-> FALSE, geom |-> FALSE, x |-> 0, y |-> 0, z |-> 0,
           sends |-> 0, out |-> "none", msg |-> None]
VpIdle == [pc |-> "idle", rpy |-> None, pos |-> None, sends |-> 0, out |-> "none"]
CfIdle == [pc |-> "idle", lvl0 |-> 0, str |-> "", lvl |-> 0, pct |-> None,
           sends |-> 0, notes |-> 0, out |-> "none"]
StIdle == [pc |-> "idle", text |-> "", sent |-> << >>, nTrig |-> 0, nOrigin |-> 0,
           nHome |-> 0, count |-> 0]
ObsInit == [firstYaw |-> None, usedYaw |-> None, written |-> {1},
            lastEvt |-> "none", exitCause |-> "none", attempts |-> 0,
            cfTicks |-> 0, cfLast |-> None, cfChanges |-> 0, cfNotes |-> 0,
            cfRaced |-> FALSE, cfFailed |-> FALSE, suRejected |-> FALSE]

(* the state when the interpreter reaches line 409 *)
InitProgram ==
    /\ pc = "orient"
    /\ pipe = "none"
    /\ vehicle = "none"
    /\ listeners = {}
    /\ sched = [jobs |-> {}, running |-> FALSE]
    /\ bound = FALSE
    /\ frame_mutex = "free"
    /\ scale_factor = 1
    /\ frameNo = 0
    /\ frames = None
    /\ data = None
    /\ H_T265Ref_T265body = Identity4
    /\ H_aeroRef_aeroBody = None
    /\ heading_north_yaw = None
    /\ tags = << >>
    /\ tagIdx = 0
    /\ H_camera_tag = None
    /\ is_landing_tag_detected = FALSE
    /\ current_confidence = None
    /\ su = SuOff
    /\ lt = LtIdle
    /\ vp = VpIdle
    /\ cf = CfIdle
    /\ st = StIdle
    /\ obs = ObsInit

(* the state when the main thread first reaches line 524: all six globals   *)
(* bound, listeners registered, the scheduler started, nothing published;   *)
(* the scale and the heading are what the calibration thread (started at    *)
(* line 441) and the attitude callback (registered at line 423) have left   *)
InitLoop(c, scale, yaw) ==
    /\ cfg = c
    /\ pc = "wait"
    /\ pipe = "started"
    /\ vehicle = "open"
    /\ listeners = IF c.compass_enabled = 1 THEN {"STATUSTEXT", "ATTITUDE"}
                   ELSE {"STATUSTEXT"}
    /\ sched = [jobs |-> Jobs, running |-> TRUE]
    /\ bound = TRUE
    /\ frame_mutex = "free"
    /\ scale_factor = scale
    /\ frameNo = 0
    /\ frames = None
    /\ data = None
    /\ H_T265Ref_T265body = Identity4
    /\ H_aeroRef_aeroBody = None
    /\ heading_north_yaw = yaw
    /\ tags = << >>
    /\ tagIdx = 0
    /\ H_camera_tag = None
    /\ is_landing_tag_detected = FALSE
    /\ current_confidence = None
    /\ su = IF c.scale_calib_enable THEN SuIdle ELSE SuOff
    /\ lt = LtIdle
    /\ vp = VpIdle
    /\ cf = CfIdle
    /\ st = StIdle
    /\ obs = ObsInit

InitRunning(c) == InitLoop(c, 1, None)


(* --------------------------- main thread: startup ---------------------- *)
StartupPcs == {"orient", "rs_connect", "connect", "connect_sleep", "listen",
               "globals", "sched_add", "calib", "sched_start", "compass_sleep"}
LoopPcs == {"wait", "pose", "lock", "sx", "sy", "sz", "unlock", "compose",
            "offset", "heading", "fisheye", "rectify", "detect", "tags",
            "tag_iter", "tag_flag", "tag_new", "tag_x", "tag_y", "tag_z", "viz"}
TryPcs == {"setup"} \cup LoopPcs
FinallyPcs == {"fin_pipe", "fin_vehicle", "fin_exit"}

Exit(cause) ==
    /\ pc' = "exited"
    /\ obs' = [obs EXCEPT !.exitCause = cause]

(* variant: no else branch, any other value is taken as the second preset *)
M_Orient_NoElse ==
    /\ pc = "orient"
    /\ pc' = "rs_connect"
    /\ UNCHANGED << cfg, st, procVars, lockVars, poseVars, heading_north_yaw, tagVars,
                    taskVars, obs >>

(* lines 155-174 *)
M_Orient ==
    /\ pc = "orient"
    /\ IF cfg.camera_orientation \in {0, 1}
       THEN pc' = "rs_connect" /\ obs' = obs
       ELSE Exit("fatal_orientation")
    /\ UNCHANGED << cfg, st, procVars, lockVars, poseVars, heading_north_yaw, tagVars, taskVars >>

(* realsense_connect, lines 392-403 and 412 *)
M_RealsenseConnect ==
    /\ pc = "rs_connect"
    /\ \E ok \in BOOLEAN :
         IF ok
         THEN pipe' = "started" /\ pc' = "connect" /\ obs' = obs
         ELSE pipe' = pipe /\ Exit("fatal_realsense")
    /\ UNCHANGED << cfg, st, vehicle, listeners, sched, bound, lockVars, poseVars,
                    heading_north_yaw, tagVars, taskVars >>

(* variant: a single attempt, startup goes on after a failed connection *)
M_VehicleConnect_Once ==
    /\ pc = "connect"
    /\ \E r \in {"ok", "fail", "interrupt"} :
         CASE r = "ok" -> vehicle' = "open" /\ pc' = "listen" /\ obs' = obs
           [] r = "fail" -> /\ obs.attempts < MaxConnect
                            /\ vehicle' = vehicle
                            /\ pc' = "listen"
                            /\ obs' = [obs EXCEPT !.attempts = @ + 1]
           [] OTHER -> vehicle' = vehicle /\ Exit("interrupt_connect")
    /\ UNCHANGED << cfg, st, pipe, listeners, sched, bound, lockVars, poseVars,
                    heading_north_yaw, tagVars, taskVars >>

(* vehicle_connect, lines 380-390, called from the while of line 416 *)
M_VehicleConnect ==
    /\ pc = "connect"
    /\ \E r \in {"ok", "fail", "interrupt"} :
         CASE r = "ok" -> vehicle' = "open" /\ pc' = "listen" /\ obs' = obs
           [] r = "fail" -> /\ obs.attempts < MaxConnect
                            /\ vehicle' = vehicle
                            /\ pc' = "connect_sleep"
                            /\ obs' = [obs EXCEPT !.attempts = @ + 1]
           [] OTHER -> vehicle' = vehicle /\ Exit("interrupt_connect")
    /\ UNCHANGED << cfg, st, pipe, listeners, sched, bound, lockVars, poseVars,
                    heading_north_yaw, tagVars, taskVars >>

(* time.sleep(1), line 417 *)
M_ConnectSleep ==
    /\ pc = "connect_sleep"
    /\ pc' = "connect"
    /\ UNCHANGED << cfg, st, procVars, lockVars, poseVars, heading_north_yaw, tagVars,
                    taskVars, obs >>

(* lines 420-423 *)
M_Listen ==
    /\ pc = "listen"
    /\ listeners' = IF cfg.compass_enabled = 1 THEN {"STATUSTEXT", "ATTITUDE"}
                    ELSE {"STATUSTEXT"}
    /\ pc' = "globals"
    /\ UNCHANGED << cfg, st, pipe, vehicle, sched, bound, lockVars, poseVars,
                    heading_north_yaw, tagVars, taskVars, obs >>

(* lines 425-430 *)
M_InitGlobals ==
    /\ pc = "globals"
    /\ data' = None
    /\ current_confidence' = None
    /\ H_aeroRef_aeroBody' = None
    /\ H_camera_tag' = None
    /\ is_landing_tag_detected' = FALSE
    /\ heading_north_yaw' = None
    /\ bound' = TRUE
    /\ pc' = "sched_add"
    /\ UNCHANGED << cfg, st, pipe, vehicle, listeners, sched, lockVars, frameNo, frames,
                    H_T265Ref_T265body, tags, tagIdx, su, lt, vp, cf, obs >>

(* the add_job calls that complete: those before the first zero frequency *)
AddedJobs(hz) ==
    { AddOrder[i] : i \in { k \in 1..3 : \A n \in 1..k : hz[AddOrder[n]] # 0 } }

(* lines 433-436: seconds=1/hz is evaluated before each add_job call and    *)
(* raises ZeroDivisionError for a zero frequency, outside any try; for a    *)
(* negative frequency it is a negative number of seconds, which             *)
(* IntervalTrigger takes as it is                                           *)
M_SchedAdd ==
    /\ pc = "sched_add"
    /\ sched' = [sched EXCEPT !.jobs = AddedJobs(cfg.hz)]
    /\ IF AddedJobs(cfg.hz) = Jobs
       THEN pc' = "calib" /\ obs' = obs
       ELSE Exit("zero_division")
    /\ UNCHANGED << cfg, st, pipe, vehicle, listeners, bound, lockVars, poseVars,
                    heading_north_yaw, tagVars, taskVars >>

(* lines 438-441 *)
M_Calib ==
    /\ pc = "calib"
    /\ su' = IF cfg.scale_calib_enable THEN SuIdle ELSE su
    /\ pc' = "sched_start"
    /\ UNCHANGED << cfg, st, procVars, lockVars, poseVars, heading_north_yaw, tagVars,
                    current_confidence, lt, vp, cf, obs >>

(* line 443 *)
M_SchedStart ==
    /\ pc = "sched_start"
    /\ sched' = [sched EXCEPT !.running = TRUE]
    /\ pc' = "compass_sleep"
    /\ UNCHANGED << cfg, st, pipe, vehicle, listeners, bound, lockVars, poseVars,
                    heading_north_yaw, tagVars, taskVars, obs >>

(* lines 445-448 *)
M_CompassSleep ==
    /\ pc = "compass_sleep"
    /\ pc' = "setup"
    /\ UNCHANGED << cfg, st, procVars, lockVars, poseVars, heading_north_yaw, tagVars,
                    taskVars, obs >>

(* lines 450-522, inside the try: an exception of the SDK or of OpenCV      *)
(* reaches the finally clause                                              *)
M_Setup ==
    /\ pc = "setup"
    /\ \E ok \in BOOLEAN :
         IF ok
         THEN pc' = "wait" /\ obs' = obs
         ELSE pc' = "fin_pipe" /\ obs' = [obs EXCEPT !.exitCause = "unexpected"]
    /\ UNCHANGED << cfg, st, procVars, lockVars, poseVars, heading_north_yaw, tagVars,
                    taskVars >>

(* KeyboardInterrupt delivered to the main thread.  Inside the try of line  *)
(* 450 it is caught at line 649 and the finally clause runs (a with block   *)
(* releases the lock on the way out); before line 450 nothing catches it.   *)
(* An interrupt inside vehicle_connect is an outcome of M_VehicleConnect.   *)
Interrupt ==
    /\ pc \in (StartupPcs \ {"connect"}) \cup TryPcs
    /\ IF pc \in TryPcs
       THEN /\ pc' = "fin_pipe"
            /\ obs' = [obs EXCEPT !.exitCause = "interrupt", !.lastEvt = "interrupt"]
       ELSE Exit("interrupt_startup")
    /\ frame_mutex' = IF frame_mutex = "main" THEN "free" ELSE frame_mutex
    /\ UNCHANGED << cfg, st, procVars, scale_factor, poseVars, heading_north_yaw, tagVars,
                    taskVars >>

(* variant: the stream is stopped after the loop, on the quit path only *)
F_PipeStop_IfQuit ==
    /\ pc = "fin_pipe"
    /\ pipe' = IF pipe # "none" /\ obs.exitCause = "quit" THEN "stopped" ELSE pipe
    /\ pc' = "fin_vehicle"
    /\ UNCHANGED << cfg, st, vehicle, listeners, sched, bound, lockVars, poseVars,
                    heading_north_yaw, tagVars, taskVars, obs >>

(* lines 652-658 *)
F_PipeStop ==
    /\ pc = "fin_pipe"
    /\ pipe' = IF pipe # "none" THEN "stopped" ELSE pipe
    /\ pc' = "fin_vehicle"
    /\ UNCHANGED << cfg, st, vehicle, listeners, sched, bound, lockVars, poseVars,
                    heading_north_yaw, tagVars, taskVars, obs >>

F_VehicleClose ==
    /\ pc = "fin_vehicle"
    /\ vehicle' = IF vehicle # "none" THEN "closed" ELSE vehicle
    /\ pc' = "fin_exit"
    /\ UNCHANGED << cfg, st, pipe, listeners, sched, bound, lockVars, poseVars,
                    heading_north_yaw, tagVars, taskVars, obs >>

F_Exit ==
    /\ pc = "fin_exit"
    /\ pc' = "exited"
    /\ UNCHANGED << cfg, st, procVars, lockVars, poseVars, heading_north_yaw, tagVars,
                    taskVars, obs >>


(* ----------------------- main thread: Acquisition Loop ----------------- *)
Abandon(evt) ==
    /\ pc' = "wait"
    /\ obs' = [obs EXCEPT !.lastEvt = evt]

(* lines 525-530: pipe.wait_for_frames() delivers the next frameset or raises *)
L_Wait(S) ==
    /\ pc = "wait"
    /\ frameNo < MaxFrames
    /\ \E ok \in BOOLEAN :
         IF ok
         THEN /\ \E f \in S : frames' = f
              /\ frameNo' = frameNo + 1
              /\ pc' = "pose"
              /\ obs' = [obs EXCEPT !.lastEvt = "none"]
         ELSE /\ UNCHANGED << frames, frameNo >>
              /\ pc' = "wait"
              /\ obs' = [obs EXCEPT !.lastEvt = "fail_wait"]
    /\ UNCHANGED << cfg, st, procVars, lockVars, data, H_T265Ref_T265body,
                    H_aeroRef_aeroBody, heading_north_yaw, tagVars, taskVars >>

(* lines 533-541 *)
L_Pose ==
    /\ pc = "pose"
    /\ IF frames # None
       THEN /\ data' = frames
            /\ H_T265Ref_T265body' = quaternion_matrix(Val(frames).rotation)
            /\ pc' = "lock"
       ELSE /\ UNCHANGED << data, H_T265Ref_T265body >>
            /\ pc' = "fisheye"
    /\ UNCHANGED << cfg, st, procVars, lockVars, frameNo, frames, H_aeroRef_aeroBody,
                    heading_north_yaw, tagVars, taskVars, obs >>

(* line 542: with frame_mutex *)
L_Lock ==
    /\ pc = "lock"
    /\ frame_mutex = "free"
    /\ frame_mutex' = "main"
    /\ pc' = "sx"
    /\ UNCHANGED << cfg, st, procVars, scale_factor, poseVars, heading_north_yaw, tagVars,
                    taskVars, obs >>

(* lines 543-545, one statement each *)
ScaleStep(at, i, next) ==
    /\ pc = at
    /\ H_T265Ref_T265body' =
          [H_T265Ref_T265body EXCEPT ![i][4] = Val(data).translation[i] * scale_factor]
    /\ pc' = next
    /\ UNCHANGED << cfg, st, procVars, lockVars, frameNo, frames, data, H_aeroRef_aeroBody,
                    heading_north_yaw, tagVars, taskVars, obs >>

L_ScaleX == ScaleStep("sx", 1, "sy")
L_ScaleY == ScaleStep("sy", 2, "sz")
L_ScaleZ == ScaleStep("sz", 3, "unlock")

(* variant: the with block of line 542 extends over the rest of the iteration *)
L_Unlock_Late ==
    /\ pc = "unlock"
    /\ pc' = "compose"
    /\ UNCHANGED << cfg, st, procVars, lockVars, poseVars, heading_north_yaw, tagVars,
                    taskVars, obs >>

(* leaving the with block of line 542 *)
L_Unlock ==
    /\ pc = "unlock"
    /\ frame_mutex' = "free"
    /\ pc' = "compose"
    /\ UNCHANGED << cfg, st, procVars, scale_factor, poseVars, heading_north_yaw, tagVars,
                    taskVars, obs >>

(* lines 547-548 *)
L_Compose ==
    /\ pc = "compose"
    /\ H_aeroRef_aeroBody' =
          MatDot(H_aeroRef_T265Ref,
                 MatDot(H_T265Ref_T265body, H_T265body_aeroBody(cfg.camera_orientation)))
    /\ pc' = "offset"
    /\ UNCHANGED << cfg, st, procVars, lockVars, frameNo, frames, data, H_T265Ref_T265body,
                    heading_north_yaw, tagVars, taskVars, obs >>

(* lines 551-558 *)
L_Offset ==
    /\ pc = "offset"
    /\ H_aeroRef_aeroBody' =
          IF cfg.body_offset_enabled = 1
          THEN MatDot(H_body_camera, MatDot(H_aeroRef_aeroBody, H_camera_body))
          ELSE H_aeroRef_aeroBody
    /\ pc' = "heading"
    /\ UNCHANGED << cfg, st, procVars, lockVars, frameNo, frames, data, H_T265Ref_T265body,
                    heading_north_yaw, tagVars, taskVars, obs >>

(* variant: the correction is composed on the left *)
L_Heading_LeftCompose ==
    /\ pc = "heading"
    /\ IF cfg.compass_enabled = 1 /\ heading_north_yaw # None
       THEN /\ H_aeroRef_aeroBody' =
                  MatDot(euler_matrix_yaw(Val(heading_north_yaw)), H_aeroRef_aeroBody)
            /\ obs' = [obs EXCEPT !.usedYaw = heading_north_yaw]
       ELSE UNCHANGED << H_aeroRef_aeroBody, obs >>
    /\ pc' = "fisheye"
    /\ UNCHANGED << cfg, st, procVars, lockVars, frameNo, frames, data, H_T265Ref_T265body,
                    heading_north_yaw, tagVars, taskVars >>

(* lines 561-563 *)
L_Heading ==
    /\ pc = "heading"
    /\ IF cfg.compass_enabled = 1 /\ heading_north_yaw # None
       THEN /\ H_aeroRef_aeroBody' =
                  MatDot(H_aeroRef_aeroBody, euler_matrix_yaw(Val(heading_north_yaw)))
            /\ obs' = [obs EXCEPT !.usedYaw = heading_north_yaw]
       ELSE UNCHANGED << H_aeroRef_aeroBody, obs >>
    /\ pc' = "fisheye"
    /\ UNCHANGED << cfg, st, procVars, lockVars, frameNo, frames, data, H_T265Ref_T265body,
                    heading_north_yaw, tagVars, taskVars >>

(* lines 574-581 *)
L_Fisheye ==
    /\ pc = "fisheye"
    /\ \E ok \in BOOLEAN :
         IF ok THEN pc' = "rectify" /\ obs' = obs ELSE Abandon("fail_fisheye")
    /\ UNCHANGED << cfg, st, procVars, lockVars, poseVars, heading_north_yaw, tagVars,
                    taskVars >>

(* lines 586-599 *)
L_Rectify ==
    /\ pc = "rectify"
    /\ \E ok \in BOOLEAN :
         IF ok THEN pc' = "detect" /\ obs' = obs ELSE Abandon("fail_rectify")
    /\ UNCHANGED << cfg, st, procVars, lockVars, poseVars, heading_north_yaw, tagVars,
                    taskVars >>

(* variant: the detector call is not guarded, its exception leaves the loop *)
L_Detect_Unguarded(TL) ==
    /\ pc = "detect"
    /\ \E ok \in BOOLEAN :
         IF ok
         THEN /\ \E l \in TL : tags' = l
              /\ pc' = "tags"
              /\ obs' = obs
         ELSE /\ tags' = tags
              /\ pc' = "fin_pipe"
              /\ obs' = [obs EXCEPT !.lastEvt = "fail_detect", !.exitCause = "unexpected"]
    /\ UNCHANGED << cfg, st, procVars, lockVars, poseVars, heading_north_yaw, tagIdx,
                    H_camera_tag, is_landing_tag_detected, taskVars >>

(* lines 602-607: at_detector.detect returns a list of tags or raises *)
L_Detect(TL) ==
    /\ pc = "detect"
    /\ \E ok \in BOOLEAN :
         IF ok
         THEN /\ \E l \in TL : tags' = l
              /\ pc' = "tags"
              /\ obs' = obs
         ELSE /\ tags' = tags
              /\ Abandon("fail_detect")
    /\ UNCHANGED << cfg, st, procVars, lockVars, poseVars, heading_north_yaw, tagIdx,
                    H_camera_tag, is_landing_tag_detected, taskVars >>

(* lines 609 and 618-619: if tags: ... else: is_landing_tag_detected = False *)
L_Tags ==
    /\ pc = "tags"
    /\ IF tags # << >>
       THEN /\ tagIdx' = 1
            /\ pc' = "tag_iter"
            /\ UNCHANGED is_landing_tag_detected
       ELSE /\ is_landing_tag_detected' = FALSE
            /\ pc' = "viz"
            /\ UNCHANGED tagIdx
    /\ UNCHANGED << cfg, st, procVars, lockVars, poseVars, heading_north_yaw, tags,
                    H_camera_tag, taskVars, obs >>

(* lines 610-611: for tag in tags: if tag.tag_id == tag_landing_id *)
L_TagIter ==
    /\ pc = "tag_iter"
    /\ IF tagIdx > Len(tags)
       THEN pc' = "viz" /\ UNCHANGED tagIdx
       ELSE IF tags[tagIdx].tag_id = tag_landing_id
            THEN pc' = "tag_flag" /\ UNCHANGED tagIdx
            ELSE pc' = "tag_iter" /\ tagIdx' = tagIdx + 1
    /\ UNCHANGED << cfg, st, procVars, lockVars, poseVars, heading_north_yaw, tags,
                    H_camera_tag, is_landing_tag_detected, taskVars, obs >>

(* line 612 *)
L_TagFlag ==
    /\ pc = "tag_flag"
    /\ is_landing_tag_detected' = TRUE
    /\ pc' = "tag_new"
    /\ UNCHANGED << cfg, st, procVars, lockVars, poseVars, heading_north_yaw, tags, tagIdx,
                    H_camera_tag, taskVars, obs >>

(* line 613: a fresh matrix, translation column zero *)
L_TagNew ==
    /\ pc = "tag_new"
    /\ H_camera_tag' = Some(<<0, 0, 0>>)
    /\ pc' = "tag_x"
    /\ UNCHANGED << cfg, st, procVars, lockVars, poseVars, heading_north_yaw, tags, tagIdx,
                    is_landing_tag_detected, taskVars, obs >>

(* lines 614-616, one statement each; after the third the for loop advances *)
TagStep(at, i, next) ==
    /\ pc = at
    /\ H_camera_tag' = Some([Val(H_camera_tag) EXCEPT ![i] = tags[tagIdx].pose_t[i]])
    /\ pc' = next
    /\ tagIdx' = IF i = 3 THEN tagIdx + 1 ELSE tagIdx
    /\ UNCHANGED << cfg, st, procVars, lockVars, poseVars, heading_north_yaw, tags,
                    is_landing_tag_detected, taskVars, obs >>

L_TagX == TagStep("tag_x", 1, "tag_y")
L_TagY == TagStep("tag_y", 2, "tag_z")
L_TagZ == TagStep("tag_z", 3, "tag_iter")

(* lines 622-647: without visualization the loop continues; with it the     *)
(* frame is drawn (OpenCV may raise), and the quit key breaks the loop      *)
L_Viz ==
    /\ pc = "viz"
    /\ IF cfg.visualization
       THEN \E r \in {"next", "quit", "raise"} :
              CASE r = "next" -> pc' = "wait" /\ obs' = obs
                [] r = "quit" -> pc' = "fin_pipe" /\ obs' = [obs EXCEPT !.exitCause = "quit"]
                [] OTHER -> pc' = "fin_pipe" /\ obs' = [obs EXCEPT !.exitCause = "unexpected"]
       ELSE pc' = "wait" /\ obs' = obs
    /\ UNCHANGED << cfg, st, procVars, lockVars, poseVars, heading_north_yaw, tagVars,
                    taskVars >>

LoopStep(S, TL) ==
    \/ L_Wait(S) \/ L_Pose \/ L_Lock \/ L_ScaleX \/ L_ScaleY \/ L_ScaleZ \/ L_Unlock
    \/ L_Compose \/ L_Offset \/ L_Heading \/ L_Fisheye \/ L_Rectify \/ L_Detect(TL)
    \/ L_Tags \/ L_TagIter \/ L_TagFlag \/ L_TagNew \/ L_TagX \/ L_TagY \/ L_TagZ
    \/ L_Viz


(* -------------------------- autopilot callbacks ------------------------ *)
(* vehicle.send_mavlink + vehicle.flush: may raise; always raises when the  *)
(* link is not open                                                        *)
SendOutcomes == IF vehicle = "open" THEN {TRUE, FALSE} ELSE {FALSE}

(* att_msg_callback, lines 360-367: both branches assign value.yaw.  Before *)
(* line 430 has run the name is unbound and the callback raises NameError,  *)
(* which the link library logs.                                            *)
att_msg_callback(yaw) ==
    /\ "ATTITUDE" \in listeners
    /\ vehicle = "open"
    /\ pc # "exited"
    /\ heading_north_yaw' = IF bound THEN Some(yaw) ELSE heading_north_yaw
    /\ obs' = [obs EXCEPT !.firstYaw = IF @ = None THEN Some(yaw) ELSE @]
    /\ UNCHANGED << cfg, st, pc, procVars, lockVars, poseVars, tagVars, taskVars >>

(* statustext_callback, lines 353-358, one notification at a time on the     *)
(* link's listener thread: line 354                                        *)
ST_Receive(Texts) ==
    /\ "STATUSTEXT" \in listeners
    /\ vehicle = "open"
    /\ pc # "exited"
    /\ st.pc = "idle"
    /\ st.count < MaxStatus
    /\ \E text \in Texts :
         st' = [st EXCEPT !.text = text, !.sent = << >>, !.count = @ + 1,
                          !.nTrig = IF text \in TriggerTexts THEN @ + 1 ELSE @,
                          !.pc = IF text \in TriggerTexts THEN "sleep" ELSE "idle"]
    /\ UNCHANGED << cfg, pc, procVars, lockVars, poseVars, heading_north_yaw, tagVars,
                    taskVars, obs >>

(* lines 355-356 *)
ST_Sleep ==
    /\ st.pc = "sleep"
    /\ st' = [st EXCEPT !.pc = "origin"]
    /\ UNCHANGED << cfg, pc, procVars, lockVars, poseVars, heading_north_yaw, tagVars,
                    taskVars, obs >>

(* variant: one try block around both messages *)
ST_Origin_SharedTry ==
    /\ st.pc = "origin"
    /\ \E ok \in SendOutcomes :
         st' = [st EXCEPT !.sent = Append(@, [msg |-> set_gps_global_origin, ok |-> ok]),
                          !.nOrigin = @ + 1,
                          !.pc = IF ok THEN "home" ELSE "idle"]
    /\ UNCHANGED << cfg, pc, procVars, lockVars, poseVars, heading_north_yaw, tagVars,
                    taskVars, obs >>

(* set_default_global_origin, lines 311-322 *)
ST_Origin ==
    /\ st.pc = "origin"
    /\ \E ok \in SendOutcomes :
         st' = [st EXCEPT !.sent = Append(@, [msg |-> set_gps_global_origin, ok |-> ok]),
                          !.nOrigin = @ + 1,
                          !.pc = "home"]
    /\ UNCHANGED << cfg, pc, procVars, lockVars, poseVars, heading_north_yaw, tagVars,
                    taskVars, obs >>

(* set_default_home_position, lines 324-351 *)
ST_Home ==
    /\ st.pc = "home"
    /\ \E ok \in SendOutcomes :
         st' = [st EXCEPT !.sent = Append(@, [msg |-> set_home_position, ok |-> ok]),
                          !.nHome = @ + 1,
                          !.pc = "idle"]
    /\ UNCHANGED << cfg, pc, procVars, lockVars, poseVars, heading_north_yaw, tagVars,
                    taskVars, obs >>

statustext_callback(Texts) == ST_Receive(Texts) \/ ST_Sleep \/ ST_Origin \/ ST_Home

(* -------------------------- calibration thread ------------------------- *)
(* scale_update, lines 369-378.  An input is an option: None is a text that *)
(* float() rejects.                                                        *)
SU_Input(In) ==
    /\ su.pc = "input"
    /\ pc # "exited"
    /\ \E u \in In : su' = [pc |-> "acquire", user_input |-> u]
    /\ UNCHANGED << cfg, st, pc, procVars, lockVars, poseVars, heading_north_yaw, tagVars,
                    current_confidence, lt, vp, cf, obs >>

(* variant: the assignment is not serialised against the lock holder *)
SU_Acquire_NoLock ==
    /\ su.pc = "acquire"
    /\ pc # "exited"
    /\ frame_mutex' = "calib"
    /\ su' = [su EXCEPT !.pc = "write"]
    /\ UNCHANGED << cfg, st, pc, procVars, scale_factor, poseVars, heading_north_yaw,
                    tagVars, current_confidence, lt, vp, cf, obs >>

(* line 374 *)
SU_Acquire ==
    /\ su.pc = "acquire"
    /\ pc # "exited"
    /\ frame_mutex = "free"
    /\ frame_mutex' = "calib"
    /\ su' = [su EXCEPT !.pc = "write"]
    /\ UNCHANGED << cfg, st, pc, procVars, scale_factor, poseVars, heading_north_yaw,
                    tagVars, current_confidence, lt, vp, cf, obs >>

(* variant: acquire/release without a with block, no release on ValueError *)
SU_Write_LockLeak ==
    /\ su.pc = "write"
    /\ pc # "exited"
    /\ IF su.user_input # None
       THEN /\ scale_factor' = Val(su.user_input)
            /\ obs' = [obs EXCEPT !.written = @ \cup {Val(su.user_input)}]
            /\ frame_mutex' = "free"
       ELSE /\ scale_factor' = scale_factor
            /\ obs' = [obs EXCEPT !.suRejected = TRUE]
            /\ frame_mutex' = frame_mutex
    /\ su' = [su EXCEPT !.pc = "input"]
    /\ UNCHANGED << cfg, st, pc, procVars, poseVars, heading_north_yaw, tagVars,
                    current_confidence, lt, vp, cf >>

(* line 375 and the exit of the with block; ValueError leaves the value *)
SU_Write ==
    /\ su.pc = "write"
    /\ pc # "exited"
    /\ IF su.user_input # None
       THEN /\ scale_factor' = Val(su.user_input)
            /\ obs' = [obs EXCEPT !.written = @ \cup {Val(su.user_input)}]
       ELSE /\ scale_factor' = scale_factor
            /\ obs' = [obs EXCEPT !.suRejected = TRUE]
    /\ frame_mutex' = "free"
    /\ su' = [su EXCEPT !.pc = "input"]
    /\ UNCHANGED << cfg, st, pc, procVars, poseVars, heading_north_yaw, tagVars,
                    current_confidence, lt, vp, cf >>

(* ---------------------------- telemetry tasks -------------------------- *)
(* a job of the BackgroundScheduler fires when the scheduler runs, the job  *)
(* is registered and no instance of it is running (max_instances = 1)       *)
Fires(job) == sched.running /\ job \in sched.jobs /\ pc # "exited"

(* the report of lines 230-232: atan2(x, z), atan2(y, z) kept as their      *)
(* argument pairs, the distance as its square                              *)
landing_target(x, y, z) ==
    [x_offset |-> <<x, z>>, y_offset |-> <<y, z>>, dist2 |-> x * x + y * y + z * z]

(* a finished tick: the locals are gone, the outcome is kept *)
LtDone(out, n) == [LtIdle EXCEPT !.out = out, !.sends = n]
VpDone(out, n) == [VpIdle EXCEPT !.out = out, !.sends = n]
CfDone(out, n, k) == [CfIdle EXCEPT !.out = out, !.sends = n, !.notes = k]

(* send_land_target_message, line 221 *)
LT_Begin ==
    /\ Fires("landing")
    /\ lt.pc = "idle"
    /\ lt' = [LtIdle EXCEPT
                !.flag = is_landing_tag_detected,
                !.geom = (H_camera_tag # None),
                !.pc = IF is_landing_tag_detected /\ H_camera_tag # None
                       THEN "rx" ELSE "idle",
                !.out = IF is_landing_tag_detected /\ H_camera_tag # None
                        THEN "running" ELSE "noop_flag"]
    /\ UNCHANGED << cfg, st, pc, procVars, lockVars, poseVars, heading_north_yaw, tagVars,
                    current_confidence, su, vp, cf, obs >>

(* line 222 *)
LT_ReadX ==
    /\ lt.pc = "rx"
    /\ lt' = [lt EXCEPT !.x = Val(H_camera_tag)[1], !.pc = "ry"]
    /\ UNCHANGED << cfg, st, pc, procVars, lockVars, poseVars, heading_north_yaw, tagVars,
                    current_confidence, su, vp, cf, obs >>

(* line 223 *)
LT_ReadY ==
    /\ lt.pc = "ry"
    /\ lt' = [lt EXCEPT !.y = Val(H_camera_tag)[2], !.pc = "rz"]
    /\ UNCHANGED << cfg, st, pc, procVars, lockVars, poseVars, heading_north_yaw, tagVars,
                    current_confidence, su, vp, cf, obs >>

(* variant: no test of z == 0 *)
LT_ReadZ_NoZeroTest ==
    /\ lt.pc = "rz"
    /\ lt' = [lt EXCEPT !.z = Val(H_camera_tag)[3],
                        !.msg = Some(landing_target(lt.x, lt.y, Val(H_camera_tag)[3])),
                        !.pc = "send"]
    /\ UNCHANGED << cfg, st, pc, procVars, lockVars, poseVars, heading_north_yaw, tagVars,
                    current_confidence, su, vp, cf, obs >>

(* lines 224-232: read z, return on z == 0, else compute the report *)
LT_ReadZ ==
    /\ lt.pc = "rz"
    /\ lt' = IF Val(H_camera_tag)[3] = 0
             THEN LtDone("noop_z", 0)
             ELSE [lt EXCEPT !.z = Val(H_camera_tag)[3],
                             !.msg = Some(landing_target(lt.x, lt.y, Val(H_camera_tag)[3])),
                             !.pc = "send"]
    /\ UNCHANGED << cfg, st, pc, procVars, lockVars, poseVars, heading_north_yaw, tagVars,
                    current_confidence, su, vp, cf, obs >>

(* lines 234-254 *)
LT_Send ==
    /\ lt.pc = "send"
    /\ \E ok \in SendOutcomes :
         lt' = LtDone(IF ok THEN "sent" ELSE "failed", lt.sends + 1)
    /\ UNCHANGED << cfg, st, pc, procVars, lockVars, poseVars, heading_north_yaw, tagVars,
                    current_confidence, su, vp, cf, obs >>

(* variant: no test for None *)
VP_Begin_NoNoneTest ==
    /\ Fires("vision")
    /\ vp.pc = "idle"
    /\ vp' = [VpIdle EXCEPT !.pc = "rpy", !.out = "running"]
    /\ UNCHANGED << cfg, st, pc, procVars, lockVars, poseVars, heading_north_yaw, tagVars,
                    current_confidence, su, lt, cf, obs >>

(* send_vision_position_message, line 259; while the name is unbound (line  *)
(* 427 not yet run) the test raises NameError, which the scheduler logs     *)
VP_Begin ==
    /\ Fires("vision")
    /\ vp.pc = "idle"
    /\ vp' = IF ~bound
             THEN [VpIdle EXCEPT !.out = "error"]
             ELSE [VpIdle EXCEPT
                     !.pc = IF H_aeroRef_aeroBody # None THEN "rpy" ELSE "idle",
                     !.out = IF H_aeroRef_aeroBody # None THEN "running" ELSE "noop"]
    /\ UNCHANGED << cfg, st, pc, procVars, lockVars, poseVars, heading_north_yaw, tagVars,
                    current_confidence, su, lt, cf, obs >>

(* line 260: the angles are those of the matrix read here *)
VP_Rpy ==
    /\ vp.pc = "rpy"
    /\ vp' = [vp EXCEPT !.rpy = Some(H_aeroRef_aeroBody), !.pc = "pos"]
    /\ UNCHANGED << cfg, st, pc, procVars, lockVars, poseVars, heading_north_yaw, tagVars,
                    current_confidence, su, lt, cf, obs >>

(* line 261 *)
VP_Pos ==
    /\ vp.pc = "pos"
    /\ vp' = [vp EXCEPT !.pos = Some(translation_from_matrix(H_aeroRef_aeroBody)),
                        !.pc = "send"]
    /\ UNCHANGED << cfg, st, pc, procVars, lockVars, poseVars, heading_north_yaw, tagVars,
                    current_confidence, su, lt, cf, obs >>

(* variant: a failed send takes the job off the schedule *)
VP_Send_Unschedule ==
    /\ vp.pc = "send"
    /\ \E ok \in SendOutcomes :
         /\ vp' = VpDone(IF ok THEN "sent" ELSE "failed", vp.sends + 1)
         /\ sched' = IF ok THEN sched ELSE [sched EXCEPT !.jobs = @ \ {"vision"}]
    /\ UNCHANGED << cfg, st, pc, pipe, vehicle, listeners, bound, lockVars, poseVars,
                    heading_north_yaw, tagVars, current_confidence, su, lt, cf, obs >>

(* lines 263-276 *)
VP_Send ==
    /\ vp.pc = "send"
    /\ \E ok \in SendOutcomes :
         vp' = VpDone(IF ok THEN "sent" ELSE "failed", vp.sends + 1)
    /\ UNCHANGED << cfg, st, pc, procVars, lockVars, poseVars, heading_north_yaw, tagVars,
                    current_confidence, su, lt, cf, obs >>

Level == Val(data).tracker_confidence
Raced(o) == [o EXCEPT !.cfRaced = @ \/ (Level # cf.lvl0)]

(* send_confidence_level_dummy_message, lines 280-281 and 308-309 *)
CF_Begin ==
    /\ Fires("confidence")
    /\ cf.pc = "idle"
    /\ obs.cfTicks < MaxTicks
    /\ IF data = None
       THEN cf' = [CfIdle EXCEPT !.out = "noop"] /\ obs' = obs
       ELSE /\ cf' = [CfIdle EXCEPT
                        !.lvl0 = Level,
                        !.pc = IF 0 <= Level /\ Level <= 3 THEN "str" ELSE "idle",
                        !.out = IF 0 <= Level /\ Level <= 3 THEN "running" ELSE "invalid"]
            /\ obs' = [obs EXCEPT
                         !.cfTicks = @ + 1,
                         !.cfLast = Some(Level),
                         !.cfChanges = IF obs.cfLast # None /\ Val(obs.cfLast) # Level
                                       THEN @ + 1 ELSE @]
    /\ UNCHANGED << cfg, st, pc, procVars, lockVars, poseVars, heading_north_yaw, tagVars,
                    current_confidence, su, lt, vp >>

(* lines 282-283 *)
CF_Str ==
    /\ cf.pc = "str"
    /\ cf' = [cf EXCEPT !.str = pose_data_confidence_level[Level + 1], !.pc = "pct"]
    /\ obs' = Raced(obs)
    /\ UNCHANGED << cfg, st, pc, procVars, lockVars, poseVars, heading_north_yaw, tagVars,
                    current_confidence, su, lt, vp >>

(* line 284 *)
CF_Pct ==
    /\ cf.pc = "pct"
    /\ cf' = [cf EXCEPT !.lvl = Level, !.pct = Some(confidence_percent(Level)),
                        !.pc = "send"]
    /\ obs' = Raced(obs)
    /\ UNCHANGED << cfg, st, pc, procVars, lockVars, poseVars, heading_north_yaw, tagVars,
                    current_confidence, su, lt, vp >>

(* lines 286-295; a failure jumps to the except of line 306 *)
CF_Send ==
    /\ cf.pc = "send"
    /\ \E ok \in SendOutcomes :
         /\ cf' = IF ok THEN [cf EXCEPT !.sends = @ + 1, !.pc = "cmp"]
                  ELSE CfDone("failed", cf.sends + 1, 0)
         /\ obs' = [obs EXCEPT !.cfFailed = @ \/ ~ok]
    /\ UNCHANGED << cfg, st, pc, procVars, lockVars, poseVars, heading_north_yaw, tagVars,
                    current_confidence, su, lt, vp >>

(* variant: the status text is sent on every tick *)
CF_Cmp_Always ==
    /\ cf.pc = "cmp"
    /\ cf' = [cf EXCEPT !.pc = "assign"]
    /\ obs' = Raced(obs)
    /\ UNCHANGED << cfg, st, pc, procVars, lockVars, poseVars, heading_north_yaw, tagVars,
                    current_confidence, su, lt, vp >>

(* line 297 *)
CF_Cmp ==
    /\ cf.pc = "cmp"
    /\ IF current_confidence = None \/ Val(current_confidence) # Level
       THEN cf' = [cf EXCEPT !.pc = "assign"]
       ELSE cf' = CfDone("sent", cf.sends, 0)
    /\ obs' = Raced(obs)
    /\ UNCHANGED << cfg, st, pc, procVars, lockVars, poseVars, heading_north_yaw, tagVars,
                    current_confidence, su, lt, vp >>

(* line 298 *)
CF_Assign ==
    /\ cf.pc = "assign"
    /\ current_confidence' = Some(Level)
    /\ cf' = [cf EXCEPT !.pc = "notify"]
    /\ obs' = Raced(obs)
    /\ UNCHANGED << cfg, st, pc, procVars, lockVars, poseVars, heading_north_yaw, tagVars,
                    su, lt, vp >>

(* lines 299-305: the status text names confidence_str of line 282 *)
CF_Notify ==
    /\ cf.pc = "notify"
    /\ \E ok \in SendOutcomes :
         /\ cf' = CfDone(IF ok THEN "sent" ELSE "failed", cf.sends, cf.notes + 1)
         /\ obs' = [obs EXCEPT !.cfNotes = @ + 1, !.cfFailed = @ \/ ~ok]
    /\ UNCHANGED << cfg, st, pc, procVars, lockVars, poseVars, heading_north_yaw, tagVars,
                    current_confidence, su, lt, vp >>

LandingTask == LT_Begin \/ LT_ReadX \/ LT_ReadY \/ LT_ReadZ \/ LT_Send
VisionTask == VP_Begin \/ VP_Rpy \/ VP_Pos \/ VP_Send
ConfidenceTask ==
    \/ CF_Begin \/ CF_Str \/ CF_Pct \/ CF_Send \/ CF_Cmp \/ CF_Assign \/ CF_Notify
CalibThread(In) == SU_Input(In) \/ SU_Acquire \/ SU_Write

(* --------------------------- specifications ---------------------------- *)
Startup ==
    \/ M_Orient \/ M_RealsenseConnect \/ M_VehicleConnect \/ M_ConnectSleep
    \/ M_Listen \/ M_InitGlobals \/ M_SchedAdd \/ M_Calib \/ M_SchedStart
    \/ M_CompassSleep

Cleanup == F_PipeStop \/ F_VehicleClose \/ F_Exit

(* framesets with and without a pose sample, detector output with and      *)
(* without a tag                                                           *)
LifeSamples == { Some(BaseSample), None }
LifeTags == { BaseTags, << >> }

(* the whole main thread, from line 155 to the exit of the process *)
Orientations == {-1, 0, 1, 2}
LifeConfigs ==
    { Config(o, 0, 0, FALSE, v, hz) : o \in Orientations, v \in BOOLEAN, hz \in HzTriples }

Init == InitProgram /\ cfg \in LifeConfigs

Next ==
    \/ Startup
    \/ M_Setup
    \/ LoopStep(LifeSamples, LifeTags)
    \/ Interrupt
    \/ Cleanup

Spec == Init /\ [][Next]_vars

(* the Acquisition Loop with the attitude callback (compass alignment on) *)
InitHeading == InitRunning(Config(1, 1, 0, FALSE, FALSE, HzDefault))

NextHeading ==
    \/ LoopStep({Some(BaseSample)}, {BaseTags})
    \/ \E yaw \in Yaws : att_msg_callback(yaw)

SpecHeading == InitHeading /\ [][NextHeading]_vars

(* the Acquisition Loop with the calibration thread *)
ScaleSamples ==
    { Some(Sample(3, <<1, 0, 0, 0>>, <<a, a + 1, a + 2>>)) : a \in Coords }
ScaleInputs == { Some(v) : v \in Scales } \cup {None}

InitScale == InitRunning(Config(1, 0, 0, TRUE, FALSE, HzDefault))

NextScale ==
    \/ LoopStep(ScaleSamples, {BaseTags})
    \/ CalibThread(ScaleInputs)

SpecScale == InitScale /\ [][NextScale]_vars

(* the Acquisition Loop with the landing-target task *)
InitTarget == InitRunning(Config(1, 0, 0, FALSE, FALSE, HzDefault))

NextTarget ==
    \/ LoopStep({Some(BaseSample)}, TagLists)
    \/ LandingTask

SpecTarget == InitTarget /\ [][NextTarget]_vars

(* the Acquisition Loop with the confidence task *)
ConfSamples == { Some(Sample(l, <<1, 0, 0, 0>>, <<1, 2, 3>>)) : l \in Levels }

InitConf == InitRunning(Config(1, 0, 0, FALSE, FALSE, HzDefault))

NextConf ==
    \/ LoopStep(ConfSamples, {BaseTags})
    \/ ConfidenceTask

SpecConf == InitConf /\ [][NextConf]_vars

(* the Acquisition Loop with the three telemetry tasks *)
InitSched == InitRunning(Config(1, 0, 0, FALSE, FALSE, HzDefault))

NextSched ==
    \/ LoopStep({Some(BaseSample)}, {BaseTags})
    \/ LandingTask
    \/ VisionTask
    \/ ConfidenceTask

SpecSched == InitSched /\ [][NextSched]_vars


(* the Acquisition Loop, its exit and the cleanup, with the three telemetry *)
(* tasks: nothing in the program stops the scheduler started at line 443    *)
InitShutdown == InitRunning(Config(1, 0, 0, FALSE, TRUE, HzDefault))

NextShutdown ==
    \/ LoopStep({Some(BaseSample)}, {BaseTags})
    \/ Interrupt
    \/ Cleanup
    \/ LandingTask
    \/ VisionTask
    \/ ConfidenceTask

SpecShutdown == InitShutdown /\ [][NextShutdown]_vars

(* the Acquisition Loop with the status-text callback *)
InitStatus == InitRunning(Config(1, 0, 0, FALSE, FALSE, HzDefault))

NextStatus ==
    \/ LoopStep({Some(BaseSample)}, {BaseTags})
    \/ statustext_callback(StatusTexts)

SpecStatus == InitStatus /\ [][NextStatus]_vars

(* the main thread from line 155 on, with the navigation-pose task; some    *)
(* framesets carry no pose sample                                          *)
InitPose == InitProgram /\ cfg \in { Config(o, 0, 0, FALSE, FALSE, HzDefault) : o \in {0, 1} }

NextPose ==
    \/ Startup
    \/ M_Setup
    \/ LoopStep(LifeSamples, {BaseTags})
    \/ VisionTask

SpecPose == InitPose /\ [][NextPose]_vars

(* the frame conversion of the Acquisition Loop over sample orientations,   *)
(* translations, scales, headings and both mount presets                    *)
FrameQuats == Quats \cup { <<0, 1, 0, 0>>, <<1, 1, 0, 0>>, <<0, 0, 1, 1>> }
FrameTranslations == { <<0, 0, 0>> } \cup { <<a, -(a + 1), a + 2>> : a \in Coords }
FrameSamples == { Some(Sample(3, q, t)) : q \in FrameQuats, t \in FrameTranslations }
FrameHeadings == {None} \cup { Some(y) : y \in Yaws }

InitFrame ==
    \E o \in {0, 1}, c \in {0, 1}, s \in Scales, h \in FrameHeadings :
        /\ c = 0 => h = None
        /\ InitLoop(Config(o, c, 0, TRUE, FALSE, HzDefault), s, h)

NextFrame == LoopStep(FrameSamples, {BaseTags})

SpecFrame == InitFrame /\ [][NextFrame]_vars

(* the Acquisition Loop with the calibration thread and the operator's      *)
(* interrupt.  A thread inside a with block runs on (weak fairness of the   *)
(* statements of lines 543-545 and 375 and of the two exits); a thread      *)
(* blocked in acquire() gets the lock when it is released, since the other  *)
(* thread has to go through input() or wait_for_frames() before it asks     *)
(* again (strong fairness of the two acquisitions).  Nothing is assumed of  *)
(* the sensor, the detector or the operator.                                *)
NextLock ==
    \/ LoopStep({Some(BaseSample)}, {BaseTags})
    \/ CalibThread(ScaleInputs)
    \/ Interrupt
    \/ Cleanup

SpecLock ==
    /\ InitScale
    /\ [][NextLock]_vars
    /\ WF_vars(L_ScaleX \/ L_ScaleY \/ L_ScaleZ \/ L_Unlock)
    /\ WF_vars(SU_Write)
    /\ SF_vars(L_Lock)
    /\ SF_vars(SU_Acquire)

(* the Acquisition Loop with the navigation-pose job, the module-level      *)
(* switches of lines 46 and 55 set: body offset on, or compass alignment on *)
(* with a heading latched before the loop starts                            *)
ConvertConfigs ==
    { Config(1, c, o, FALSE, FALSE, HzDefault) : c \in {0, 1}, o \in {0, 1} }
       \ { Config(1, 0, 0, FALSE, FALSE, HzDefault) }

(* lines 540-563 applied to one sample: the value H_aeroRef_aeroBody has    *)
(* when the iteration reaches line 565                                      *)
NavigationPose(s, scale, yaw, c) ==
    LET body == [ i \in 1..4 |->
                    IF i = 4 THEN quaternion_matrix(s.rotation)[4]
                    ELSE [ quaternion_matrix(s.rotation)[i]
                             EXCEPT ![4] = s.translation[i] * scale ] ]
        composed == MatDot(H_aeroRef_T265Ref,
                           MatDot(body, H_T265body_aeroBody(c.camera_orientation)))
        shifted == IF c.body_offset_enabled = 1
                   THEN MatDot(H_body_camera, MatDot(composed, H_camera_body))
                   ELSE composed
    IN  IF c.compass_enabled = 1 /\ yaw # None
        THEN MatDot(shifted, euler_matrix_yaw(Val(yaw)))
        ELSE shifted

InitConvert ==
    \E c \in ConvertConfigs :
        InitLoop(c, 1, IF c.compass_enabled = 1 THEN Some(1) ELSE None)

NextConvert ==
    \/ LoopStep({Some(BaseSample)}, {BaseTags})
    \/ VisionTask

SpecConvert == InitConvert /\ [][NextConvert]_vars

(* the program from its start with compass alignment on (line 55 set to 1): *)
(* the attitude callback can be delivered from line 423 on, the             *)
(* navigation-pose job can fire from line 443 on                            *)
InitListen == InitProgram /\ cfg = Config(1, 1, 0, FALSE, FALSE, HzDefault)

NextListen ==
    \/ Startup
    \/ M_Setup
    \/ LoopStep({Some(BaseSample)}, {BaseTags})
    \/ \E yaw \in Yaws : att_msg_callback(yaw)
    \/ VisionTask

SpecListen == InitListen /\ [][NextListen]_vars

(* ------------------------------- claims -------------------------------- *)

(* C1: with compass alignment enabled the Heading Reference is the yaw of   *)
(* the first attitude sample delivered, whatever samples follow: both the   *)
(* stored reference and the one the frame conversion last used equal it.    *)
C1_HeadingIsFirstYaw ==
    /\ heading_north_yaw # None => heading_north_yaw = obs.firstYaw
    /\ obs.usedYaw # None => obs.usedYaw = obs.firstYaw

(* C2: once the three translation components of a sample are scaled, they   *)
(* are the sample's translation times one single scale value, and that      *)
(* value is the initial one or one scale_update wrote.                      *)
C2_OneScalePerSample ==
    (data # None /\ pc \in LoopPcs \ {"lock", "sx", "sy", "sz"}) =>
        \E s \in obs.written :
            translation_from_matrix(H_T265Ref_T265body) =
                << s * Val(data).translation[1], s * Val(data).translation[2],
                   s * Val(data).translation[3] >>

(* the calibration thread waits for the lock while the loop, holding it,    *)
(* has scaled a sample with a scale the operator entered                    *)
C2_Witness ==
    /\ pc = "unlock"
    /\ frame_mutex = "main"
    /\ su.pc = "acquire"
    /\ scale_factor = 2
    /\ translation_from_matrix(H_T265Ref_T265body) =
          << 2 * Val(data).translation[1], 2 * Val(data).translation[2],
             2 * Val(data).translation[3] >>

(* C3: a tick of the landing-target task reaches its send only after it saw *)
(* the detected flag true, a geometry, and z # 0; a tick that sees the flag *)
(* false or reads z = 0 ends without a send and without an error; and no    *)
(* step of the task changes the flag or the geometry.                       *)
C3_SendGuard ==
    /\ lt.pc = "send" => lt.flag /\ lt.geom /\ lt.z # 0
    /\ lt.sends > 0 => lt.out \in {"sent", "failed"}
    /\ lt.out \in {"noop_flag", "noop_z"} => lt.pc = "idle" /\ lt.sends = 0

C3_TickStep ==
    /\ (lt.pc = "idle" /\ lt' # lt /\ ~(is_landing_tag_detected /\ H_camera_tag # None))
          => lt'.out = "noop_flag"
    /\ (lt.pc = "rz" /\ lt' # lt /\ Val(H_camera_tag)[3] = 0) => lt'.out = "noop_z"
    /\ lt'.sends > lt.sends => lt.pc = "send"
    /\ lt' # lt => UNCHANGED << H_camera_tag, is_landing_tag_detected >>

C3_LandingTargetGuard == []C3_SendGuard /\ [][C3_TickStep]_vars

(* a tick read z = 0 from a detected tag and ended without a send *)
C3_Witness ==
    /\ lt.out = "noop_z"
    /\ is_landing_tag_detected
    /\ H_camera_tag = Some(<<1, 2, 0>>)
    /\ pc = "viz"

HasLandingTag(l) == \E i \in 1..Len(l) : l[i].tag_id = tag_landing_id
FirstLandingTag(l) ==
    l[CHOOSE i \in 1..Len(l) :
        /\ l[i].tag_id = tag_landing_id
        /\ \A j \in 1..(i - 1) : l[j].tag_id # tag_landing_id]

(* C4: when the tag handling of an iteration is over and the detector       *)
(* output held no tag with the landing id, the detected flag is false.      *)
C4_FlagClearedWithoutLandingTag ==
    (pc = "viz" /\ ~HasLandingTag(tags)) => ~is_landing_tag_detected

(* C5: when the tag handling of an iteration is over and the detector       *)
(* output held tags with the landing id, the geometry is the translation of *)
(* the first of them.                                                      *)
C5_FirstLandingTagWins ==
    (pc = "viz" /\ HasLandingTag(tags)) =>
        H_camera_tag = Some(FirstLandingTag(tags).pose_t)

(* C6 as claimed: between ticks, with every send successful and one level   *)
(* read per tick, the number of status texts equals the number of ticks     *)
(* whose level differs from the preceding tick's (none for the first).      *)
C6_NotesEqualChanges ==
    (cf.pc = "idle" /\ ~obs.cfFailed /\ ~obs.cfRaced) => obs.cfNotes = obs.cfChanges

(* C6 as amended: the first observed level is notified too, so the number   *)
(* of status texts is one more than the number of level changes.            *)
C6_NotesEqualChangesPlusFirst ==
    (cf.pc = "idle" /\ ~obs.cfFailed /\ ~obs.cfRaced) =>
        obs.cfNotes = obs.cfChanges + (IF obs.cfTicks > 0 THEN 1 ELSE 0)

(* three ticks, the level changed once: two status texts *)
C6_Witness ==
    /\ cf.pc = "idle"
    /\ ~obs.cfFailed /\ ~obs.cfRaced
    /\ obs.cfTicks = 3
    /\ obs.cfChanges = 1
    /\ obs.cfNotes = 2

(* C7: a tick that found a sample hands exactly one confidence message to   *)
(* the link, carrying level * 100 / 3 for the level it read, a value in     *)
(* 0..100, whether or not the level differs from the last one emitted.      *)
C7_OnePercentagePerTick ==
    /\ cf.sends <= 1
    /\ cf.pc \in {"send", "cmp", "assign", "notify"} =>
          /\ cf.pct # None
          /\ Val(cf.pct).num * 3 = cf.lvl * 100 * Val(cf.pct).den
          /\ 0 <= Val(cf.pct).num /\ Val(cf.pct).num <= 100 * Val(cf.pct).den
          /\ cf.lvl \in 0..3
    /\ cf.pc \in {"cmp", "assign", "notify"} => cf.sends = 1
    /\ (cf.pc = "idle" /\ cf.out \in {"sent", "failed"}) => cf.sends = 1
    /\ cf.out # "invalid"

(* the message 100/3 was sent for level 1, which was already the emitted one *)
C7_Witness ==
    /\ cf.pc = "cmp"
    /\ cf.lvl = 1
    /\ cf.sends = 1
    /\ current_confidence = Some(1)
    /\ data = Some(Sample(1, <<1, 0, 0, 0>>, <<1, 2, 3>>))

(* C8: no task sends twice in a tick; a task whose send failed has ended    *)
(* its tick, is still registered and can start its next tick, and so can    *)
(* the other two tasks.                                                    *)
C8_FailureIsolated ==
    /\ lt.sends <= 1 /\ vp.sends <= 1 /\ cf.sends <= 1 /\ cf.notes <= 1
    /\ sched.jobs = Jobs
    /\ lt.out = "failed" => ENABLED LT_Begin
    /\ vp.out = "failed" => ENABLED VP_Begin
    /\ (cf.out = "failed" /\ obs.cfTicks < MaxTicks) => ENABLED CF_Begin
    /\ (lt.out = "failed" \/ vp.out = "failed" \/ cf.out = "failed") =>
          \A job \in Jobs : Fires(job)

(* the pose send failed while the other two tasks are about to send *)
C8_Witness ==
    /\ vp.out = "failed"
    /\ vp.pc = "idle"
    /\ lt.pc = "send"
    /\ cf.pc = "send"

LoopFails == {"fail_wait", "fail_fisheye", "fail_rectify", "fail_detect"}

(* C9: after a failure of the frame wait, the image fetch, the              *)
(* rectification or the detection the main thread is back at the frame      *)
(* wait; it leaves it only with a new frameset or by operator interrupt.    *)
C9_BackAtWait == obs.lastEvt \in LoopFails => pc = "wait"

C9_NextSample ==
    (obs.lastEvt \in LoopFails /\ pc' # "wait") =>
        \/ pc' = "pose" /\ frameNo' = frameNo + 1
        \/ pc' = "fin_pipe" /\ obs'.exitCause = "interrupt"

C9_LoopSurvivesFailure == []C9_BackAtWait /\ [][C9_NextSample]_vars

(* the detection on the second frameset failed; the loop is at the frame wait *)
C9_Witness ==
    /\ pc = "wait"
    /\ obs.lastEvt = "fail_detect"
    /\ frameNo = 2
    /\ is_landing_tag_detected

(* C10: when the process has exited after the sensor pipeline was started,  *)
(* the pipeline is stopped and the link, if opened, is closed.              *)
C10_CleanupOnExit ==
    (pc = "exited" /\ pipe # "none") => (pipe = "stopped" /\ vehicle # "open")

LoopExits == {"interrupt", "quit", "unexpected"}

(* C11: after the try block is left (operator interrupt, visualization      *)
(* quit, unexpected exception) the process ends with the sensor stream      *)
(* stopped and the link closed; the link is closed only by a step that      *)
(* finds the stream already stopped, so it is never closed before it.       *)
C11_OrderInv ==
    /\ vehicle = "closed" => pipe = "stopped"
    /\ (pc = "exited" /\ obs.exitCause \in LoopExits) =>
          (pipe = "stopped" /\ vehicle = "closed")

C11_OrderStep ==
    /\ (vehicle # "closed" /\ vehicle' = "closed") => (pipe = "stopped" /\ pipe' = "stopped")
    /\ (pipe # "stopped" /\ pipe' = "stopped") => (vehicle = "open" /\ vehicle' = "open")

C11_CleanupOrder == []C11_OrderInv /\ [][C11_OrderStep]_vars

(* the drawing of the second frame raised; the process ended cleaned up *)
C11_Witness ==
    /\ pc = "exited"
    /\ obs.exitCause = "unexpected"
    /\ frameNo = 2
    /\ pipe = "stopped"
    /\ vehicle = "closed"

(* C12: once the main thread has entered the cleanup no telemetry task      *)
(* starts a tick, and no telemetry task hands a message to the link after   *)
(* the link has been closed.                                                *)
C12_NoTickInShutdown ==
    /\ pc \in FinallyPcs \cup {"exited"} =>
          /\ ~(lt.pc = "idle" /\ lt' # lt)
          /\ ~(vp.pc = "idle" /\ vp' # vp)
          /\ ~(cf.pc = "idle" /\ cf' # cf)
    /\ vehicle = "closed" =>
          /\ ~(lt.pc = "send" /\ lt' # lt)
          /\ ~(vp.pc = "send" /\ vp' # vp)
          /\ ~(cf.pc \in {"send", "notify"} /\ cf' # cf)

C12_SchedulerStopped == [][C12_NoTickInShutdown]_vars

(* C13: when the callback has returned from a notification with one of the  *)
(* three triggering texts it has handed the link exactly two messages, the  *)
(* global origin and then the home position, both carrying the static home  *)
(* reference, whatever the outcome of the first; for any other text it has  *)
(* handed the link nothing; and over the session there is one such pair per *)
(* triggering notification.                                                *)
C13_OriginThenHome ==
    /\ (st.pc = "idle" /\ st.count > 0 /\ st.text \in TriggerTexts) =>
          /\ Len(st.sent) = 2
          /\ st.sent[1].msg.type = "SET_GPS_GLOBAL_ORIGIN"
          /\ st.sent[2].msg.type = "SET_HOME_POSITION"
          /\ \A i \in 1..2 : /\ st.sent[i].msg.lat = HomeRef.lat
                              /\ st.sent[i].msg.lon = HomeRef.lon
                              /\ st.sent[i].msg.alt = HomeRef.alt
          /\ st.sent[2].msg.approach = <<0, 0, 1>>
    /\ (st.pc = "idle" /\ st.count > 0 /\ st.text \notin TriggerTexts) => st.sent = << >>
    /\ st.pc = "idle" => (st.nOrigin = st.nTrig /\ st.nHome = st.nTrig)
    /\ st.pc = "home" => Len(st.sent) = 1
    /\ st.nTrig <= st.count

(* the second triggering notification: the origin send failed, the home     *)
(* position was sent all the same                                          *)
C13_Witness ==
    /\ st.pc = "idle"
    /\ st.nTrig = 2
    /\ st.text = "GPS Glitch cleared"
    /\ Len(st.sent) = 2
    /\ ~st.sent[1].ok
    /\ st.sent[2].ok

(* C14: a tick of the navigation-pose task that finds no pose published     *)
(* ends without a send and without an error; a pose, once published, stays  *)
(* (only an iteration that carries a sample replaces it), and every tick    *)
(* that finds one goes on to hand the link one message built from the pose  *)
(* stored when the tick reads it.                                           *)
C14_PoseInv ==
    /\ vp.out # "error"
    /\ vp.out = "noop" => (vp.pc = "idle" /\ vp.sends = 0)
    /\ vp.pc \in {"rpy", "pos", "send"} => H_aeroRef_aeroBody # None
    /\ vp.pc = "send" => (vp.rpy # None /\ vp.pos # None)
    /\ (vp.pc = "idle" /\ vp.out \in {"sent", "failed"}) => vp.sends = 1

C14_PoseStep ==
    /\ (vp.pc = "idle" /\ vp' # vp /\ H_aeroRef_aeroBody = None) =>
          (vp'.pc = "idle" /\ vp'.out = "noop" /\ vp'.sends = 0)
    /\ (vp.pc = "idle" /\ vp' # vp /\ H_aeroRef_aeroBody # None) => vp'.pc = "rpy"
    /\ (vp.pc = "rpy" /\ vp' # vp) => vp'.rpy = Some(H_aeroRef_aeroBody)
    /\ (vp.pc = "pos" /\ vp' # vp) =>
          vp'.pos = Some(translation_from_matrix(H_aeroRef_aeroBody))
    /\ H_aeroRef_aeroBody # None => H_aeroRef_aeroBody' # None
    /\ H_aeroRef_aeroBody' # H_aeroRef_aeroBody =>
          (frames # None /\ pc \in {"compose", "offset", "heading"})

C14_NoOpUntilFirstPose == []C14_PoseInv /\ [][C14_PoseStep]_vars

(* the second frameset carried no sample; the tick sends the first pose *)
C14_Witness ==
    /\ frameNo = 2
    /\ frames = None
    /\ pc = "fisheye"
    /\ vp.pc = "send"
    /\ vp.rpy = Some(H_aeroRef_aeroBody)
    /\ vp.pos = Some(<<-3, 1, -2>>)

(* C15: when scale_update has handled an input that float() rejects the     *)
(* Scale Factor is what it was, the lock is free and the thread is back at  *)
(* its prompt, where every input is accepted; a valid input, also one that  *)
(* follows a rejected one, becomes the Scale Factor.                        *)
C15_ChannelInv ==
    /\ su.pc = "input" => (frame_mutex # "calib" /\ ENABLED SU_Input(ScaleInputs))
    /\ su.pc = "acquire" => frame_mutex # "calib"
    /\ su.pc = "write" => frame_mutex = "calib"

C15_WriteStep ==
    /\ (su.pc = "write" /\ su' # su /\ su.user_input = None) =>
          (scale_factor' = scale_factor /\ frame_mutex' = "free" /\ su'.pc = "input")
    /\ (su.pc = "write" /\ su' # su /\ su.user_input # None) =>
          (scale_factor' = Val(su.user_input) /\ frame_mutex' = "free"
           /\ su'.pc = "input")
    /\ scale_factor' # scale_factor => (su.pc = "write" /\ su.user_input # None)

C15_InvalidInputIgnored == []C15_ChannelInv /\ [][C15_WriteStep]_vars

(* after a rejected input a valid one was written and used by the loop *)
C15_Witness ==
    /\ obs.suRejected
    /\ su.pc = "input"
    /\ scale_factor = 2
    /\ pc = "compose"
    /\ translation_from_matrix(H_T265Ref_T265body) =
          << 2 * Val(data).translation[1], 2 * Val(data).translation[2],
             2 * Val(data).translation[3] >>

(* C16: with a camera orientation other than 0 and 1 the main thread gets   *)
(* no further than the orientation test: it exits there (with the fatal     *)
(* error unless the operator interrupts first), the pipeline not started,   *)
(* the link not connected, no job registered; with 0 or 1 the test passes   *)
(* on to the sensor connection.                                             *)
C16_FatalInv ==
    /\ cfg.camera_orientation \notin {0, 1} =>
          /\ pc \in {"orient", "exited"}
          /\ pipe = "none" /\ vehicle = "none"
          /\ sched.jobs = {} /\ ~sched.running
          /\ listeners = {}
          /\ pc = "exited" => obs.exitCause \in {"fatal_orientation", "interrupt_startup"}
    /\ cfg.camera_orientation \in {0, 1} => obs.exitCause # "fatal_orientation"

C16_OrientStep ==
    (pc = "orient" /\ pc' # pc /\ obs'.exitCause # "interrupt_startup") =>
        IF cfg.camera_orientation \in {0, 1}
        THEN pc' = "rs_connect"
        ELSE pc' = "exited" /\ obs'.exitCause = "fatal_orientation"

C16_UnsupportedOrientationFatal == []C16_FatalInv /\ [][C16_OrientStep]_vars

(* orientation 2: the process has exited with the fatal error *)
C16_Witness ==
    /\ cfg.camera_orientation = 2
    /\ pc = "exited"
    /\ obs.exitCause = "fatal_orientation"
    /\ pipe = "none"
    /\ vehicle = "none"

(* C17: whenever the scheduler runs, every registered job has a positive    *)
(* frequency, hence a positive interval; with a zero or negative frequency  *)
(* configured the main thread never gets past the job registration.         *)
C17_BadFrequencyRejected ==
    /\ sched.running => \A j \in sched.jobs : cfg.hz[j] > 0
    /\ (\E j \in Jobs : cfg.hz[j] <= 0) => pc \in StartupPcs \cup {"exited"}

(* C18: with the body offset disabled, from the composition of lines        *)
(* 547-548 on and after the heading correction, the translation of the      *)
(* Navigation Pose is (-s*z, s*x, -s*y) for the sample translation          *)
(* (x, y, z) and the Scale Factor s, for both presets, every sample         *)
(* orientation and every heading.                                           *)
C18_TranslationIsMountRotation ==
    (cfg.body_offset_enabled = 0 /\ data # None
     /\ pc \in LoopPcs \ {"pose", "lock", "sx", "sy", "sz", "unlock", "compose"}) =>
        translation_from_matrix(H_aeroRef_aeroBody) =
            << -(scale_factor * Val(data).translation[3]),
               scale_factor * Val(data).translation[1],
               -(scale_factor * Val(data).translation[2]) >>

(* forward preset, a quarter-turn sample orientation, scale 2, heading      *)
(* correction of one quarter turn applied                                   *)
C18_Witness ==
    /\ cfg.camera_orientation = 0
    /\ pc = "fisheye"
    /\ scale_factor = 2
    /\ obs.usedYaw = Some(1)
    /\ data = Some(Sample(3, <<1, 0, 0, 1>>, <<1, -2, 3>>))
    /\ translation_from_matrix(H_aeroRef_aeroBody) = <<-6, 2, 4>>
    /\ H_aeroRef_aeroBody #
          MatDot(H_aeroRef_T265Ref, MatDot(H_T265Ref_T265body, H_T265body_aeroBody(0)))

(* C19: a connection attempt ends in one of three ways: success (startup    *)
(* goes on to register the listeners), failure (the back-off sleep follows, *)
(* and after it the next attempt) or operator interrupt (the process        *)
(* exits); while the link is not connected no listener is registered, no    *)
(* job is registered and the scheduler is not running.                      *)
C19_RetryInv ==
    /\ pc \in {"connect", "connect_sleep"} => vehicle = "none"
    /\ vehicle = "none" => (listeners = {} /\ sched.jobs = {} /\ ~sched.running)
    /\ obs.attempts > 0 => pipe # "none"

C19_RetryStep ==
    /\ (pc = "connect" /\ pc' # pc) =>
          \/ pc' = "listen" /\ vehicle' = "open"
          \/ pc' = "connect_sleep" /\ vehicle' = "none" /\ obs'.attempts = obs.attempts + 1
          \/ pc' = "exited" /\ obs'.exitCause = "interrupt_connect"
    /\ (pc = "connect_sleep" /\ pc' # pc) =>
          \/ pc' = "connect"
          \/ pc' = "exited" /\ obs'.exitCause = "interrupt_startup"
    /\ (vehicle = "none" /\ vehicle' # "none") => (pc = "connect" /\ vehicle' = "open")

C19_ConnectRetry == []C19_RetryInv /\ [][C19_RetryStep]_vars

(* two attempts failed, the third succeeded; nothing is registered yet *)
C19_Witness ==
    /\ obs.attempts = 2
    /\ pc = "listen"
    /\ vehicle = "open"
    /\ listeners = {}
    /\ sched.jobs = {}

(* the translations the detector can deliver for a tag with the landing id *)
Detections == { t.pose_t : t \in { g \in AllTags : g.tag_id = tag_landing_id } }

(* C20: the three coordinates from which a landing-target report is         *)
(* computed are the coordinates of one single detection.                    *)
C20_ReportFromOneDetection ==
    lt.pc = "send" =>
        /\ <<lt.x, lt.y, lt.z>> \in Detections
        /\ lt.msg = Some(landing_target(lt.x, lt.y, lt.z))

(* C21: the holder of frame_mutex is the main thread inside lines 543-545   *)
(* or the calibration thread at line 375, never a thread at the frame wait, *)
(* the detector call, a send or input(); the holder's next statement can    *)
(* always be taken and each one brings the release nearer (at most four     *)
(* steps for the loop, one for the calibration thread, as long as the       *)
(* process lives); hence a thread waiting at line 542 or 374 gets past it.  *)
C21_HoldSteps ==
    CASE frame_mutex = "main" /\ pc = "sx" -> 4
      [] frame_mutex = "main" /\ pc = "sy" -> 3
      [] frame_mutex = "main" /\ pc = "sz" -> 2
      [] frame_mutex = "main" /\ pc = "unlock" -> 1
      [] frame_mutex = "calib" /\ su.pc = "write" -> 1
      [] frame_mutex = "free" -> 0
      [] OTHER -> 5

C21_HolderInv ==
    /\ frame_mutex = "main" =>
          /\ pc \in {"sx", "sy", "sz", "unlock"}
          /\ ENABLED (L_ScaleX \/ L_ScaleY \/ L_ScaleZ \/ L_Unlock)
    /\ frame_mutex = "calib" => (su.pc = "write" /\ (pc # "exited" => ENABLED SU_Write))
    /\ pc \in {"sx", "sy", "sz", "unlock"} => frame_mutex = "main"
    /\ su.pc = "write" => frame_mutex = "calib"
    /\ C21_HoldSteps <= 4

C21_HoldStep ==
    /\ (frame_mutex = "main" /\ pc' # pc) => C21_HoldSteps' < C21_HoldSteps
    /\ (frame_mutex = "calib" /\ su' # su) => C21_HoldSteps' < C21_HoldSteps
    /\ (frame_mutex # "free" /\ frame_mutex' # "free") => frame_mutex' = frame_mutex

C21_LockHeldBriefly ==
    /\ []C21_HolderInv
    /\ [][C21_HoldStep]_vars
    /\ (pc = "lock") ~> (pc # "lock")
    /\ (su.pc = "acquire") ~> (su.pc # "acquire" \/ pc = "exited")

(* the loop waits at line 542 while the calibration thread holds the lock,  *)
(* after the loop has itself held it in an earlier iteration                *)
C21_Witness ==
    /\ pc = "lock"
    /\ frame_mutex = "calib"
    /\ frameNo >= 2

(* C22: with the body offset enabled, or compass alignment enabled and a    *)
(* heading set, the pose the navigation-pose job is about to send (angles   *)
(* and position) is the fully converted pose of a sample, never the value   *)
(* the loop holds between lines 547 and 563.                                *)
C22_OnlyConvertedPoseSent ==
    (/\ vp.pc = "send"
     /\ \/ cfg.body_offset_enabled = 1
        \/ cfg.compass_enabled = 1 /\ heading_north_yaw # None)
    => \E s \in {Some(BaseSample)} :
          /\ vp.rpy = Some(NavigationPose(Val(s), scale_factor, heading_north_yaw, cfg))
          /\ vp.pos = Some(translation_from_matrix(
                              NavigationPose(Val(s), scale_factor, heading_north_yaw, cfg)))

(* C23: when the confidence job is about to send its status text, the level *)
(* the text names (line 282), the level of the percentage sent on this tick *)
(* (line 284) and the level recorded as last emitted (line 298) are one     *)
(* level.                                                                   *)
C23_OneLevelPerTick ==
    cf.pc = "notify" =>
        /\ cf.str = pose_data_confidence_level[cf.lvl + 1]
        /\ current_confidence = Some(cf.lvl)

(* C24: once an attitude sample has been delivered the shared variables of  *)
(* lines 425-430 are bound (so none is delivered before they are and they   *)
(* are not initialised after a delivery) and a Heading Reference is         *)
(* latched; the navigation-pose job never runs into an unbound variable.    *)
C24_InitialisedBeforeDelivery ==
    /\ obs.firstYaw # None => (bound /\ heading_north_yaw # None)
    /\ vp.out # "error"
====
